---- MODULE Spec2Model ----
(***************************************************************************)
(* State-machine model of mirtk::SurfaceMapper (Run = Initialize, Solve,   *)
(* Finalize) and of mirtk::SymmetricLinearSurfaceMapper::Solve, which      *)
(* assembles the symmetric weighted-Laplacian system over the free points. *)
(*                                                                         *)
(* A vtkDataArray is a record [null, n, m, d] with n tuples of m           *)
(* components, d[i][l] being the cell of tuple i, component l (0-based).   *)
(* A cell is [num, sol]: a number read from an input array (sol = <<>>)    *)
(* or the result of the linear solve, kept as the term                     *)
(* <<system, r, l>> of the system it was solved from (the solver is an     *)
(* external library; it is deterministic in its arguments).                *)
(* A null smart pointer is the record with null = TRUE.                    *)
(***************************************************************************)
EXTENDS Integers, Sequences, FiniteSets, TLC

VARIABLES
  _Mesh,               \* input surface mesh
  _Input,              \* input array with the fixed point map values
  _Mask,               \* input mask supplied by the caller
  _Surface,            \* internal working copy of the mesh
  _Values,             \* map values at the surface points
  _Fixed,              \* mask of the points with fixed values
  _FixedPoints,        \* ids of the fixed points
  _FreePoints,         \* ids of the free points
  _PointIndex,         \* signed compact index of every point
  _Output,             \* output map
  _NumberOfIterations, \* maximum number of solver iterations
  _Tolerance,          \* solver tolerance
  mapperType,          \* concrete class of the mapper object
  policy,              \* per-point coefficients of the edge weight policy
  A,                   \* matrix assembled by the last Solve
  b,                   \* right-hand side assembled by the last Solve
  pc,                  \* position within Run
  diag,                \* diagnostic written to cerr
  completed,           \* completed runs since the inputs were last set
  firstResult          \* partition and values after the first of them

vars == <<_Mesh, _Input, _Mask, _Surface, _Values, _Fixed, _FixedPoints,
          _FreePoints, _PointIndex, _Output, _NumberOfIterations, _Tolerance,
          mapperType, policy, A, b, pc, diag, completed, firstResult>>

\* ---------------------------------------------------------------------------
\* Bounds

MaxPoints == 4
MaxComponents == 2
MaxIterations == 1
MaxRuns == 2

WeightCoefficients == {-1, 0, 1}

\* ---------------------------------------------------------------------------
\* Data arrays, meshes, maps

Cell(v) == [num |-> v, sol |-> <<>>]

NullArray == [null |-> TRUE, n |-> 0, m |-> 0, d |-> <<>>]

NullMesh == [null |-> TRUE, npts |-> 0, polys |-> {}]

NullSurface == [null |-> TRUE, npts |-> 0, polys |-> {}, scalars |-> NullArray]

NullOutput == [null |-> TRUE, kind |-> "", domain |-> NullSurface, values |-> NullArray]

NoResult == [null |-> TRUE, fixed |-> <<>>, free |-> <<>>, index |-> <<>>,
             output |-> NullOutput]

GetNumberOfPolys(mesh) == Cardinality(mesh.polys)

\* unique undirected edges of the polygons, each as <<i, j>> with i < j
EdgeTable(surface) ==
  {e \in (0..surface.npts - 1) \X (0..surface.npts - 1) :
     /\ e[1] < e[2]
     /\ \E poly \in surface.polys : {e[1], e[2]} \subseteq poly}

\* points incident to an edge that is used by exactly one polygon
BoundaryPoints(surface) ==
  {p \in 0..surface.npts - 1 :
     \E e \in EdgeTable(surface) :
        /\ p \in {e[1], e[2]}
        /\ Cardinality({poly \in surface.polys : {e[1], e[2]} \subseteq poly}) = 1}

\* edges in the order of EdgeIterator::GetNextEdge
RECURSIVE EdgeSeq(_)
EdgeSeq(edges) ==
  IF edges = {} THEN <<>>
  ELSE LET e == CHOOSE x \in edges :
                  \A y \in edges : x[1] < y[1] \/ (x[1] = y[1] /\ x[2] <= y[2])
       IN <<e>> \o EdgeSeq(edges \ {e})

\* ---------------------------------------------------------------------------
\* SurfaceMapper

BoundaryMask(surface) ==
  [null |-> FALSE, n |-> surface.npts, m |-> 1,
   d |-> [i \in 0..surface.npts - 1 |->
            [l \in 0..0 |-> Cell(IF i \in BoundaryPoints(surface) THEN 1 ELSE 0)]]]

InputErrorNoPolysCheck(mesh, input, fixed) ==
  IF mesh.null THEN "Missing input surface mesh"
  ELSE IF ~input.null /\ input.n # mesh.npts THEN "Invalid input map values array"
  ELSE IF ~fixed.null /\ fixed.n # mesh.npts THEN "Invalid input mask"
  ELSE ""

InputError(mesh, input, fixed) ==
  IF mesh.null THEN "Missing input surface mesh"
  ELSE IF GetNumberOfPolys(mesh) = 0 THEN "Input point set must be a surface mesh"
  ELSE IF ~input.null /\ input.n # mesh.npts THEN "Invalid input map values array"
  ELSE IF ~fixed.null /\ fixed.n # mesh.npts THEN "Invalid input mask"
  ELSE ""

\* working copy of the mesh: polygons only, no cell or point data
WorkingCopy(mesh) ==
  [null |-> FALSE, npts |-> mesh.npts, polys |-> mesh.polys, scalars |-> NullArray]

InitializeValues(input) == input

InitializeMask(surface) ==
  IF ~surface.scalars.null THEN surface.scalars ELSE BoundaryMask(surface)

\* reading component 0 of tuple ptId; past the end of the array the read is
\* out of bounds and yields whatever oob holds
IsFixedPoint(fixed, oob, ptId) ==
  IF ptId < fixed.n THEN fixed.d[ptId][0].num # 0 ELSE oob[ptId]

FixedIndexOffByOne(k) == -k

FixedIndex(k) == -(k + 1)

RECURSIVE PartitionLoop(_, _, _, _, _)
PartitionLoop(ptId, npts, fixed, oob, st) ==
  IF ptId >= npts THEN st
  ELSE IF IsFixedPoint(fixed, oob, ptId)
       THEN PartitionLoop(ptId + 1, npts, fixed, oob,
              [st EXCEPT !.fixed = Append(@, ptId),
                         !.index[ptId] = FixedIndex(Len(st.fixed))])
       ELSE PartitionLoop(ptId + 1, npts, fixed, oob,
              [st EXCEPT !.free = Append(@, ptId),
                         !.index[ptId] = Len(st.free)])

Partition(npts, fixed, oob) ==
  PartitionLoop(0, npts, fixed, oob,
                [fixed |-> <<>>, free |-> <<>>, index |-> [p \in 0..npts - 1 |-> 0]])

\* ---------------------------------------------------------------------------
\* Accessors of SurfaceMapper and the weight policy of the concrete mapper

NumberOfFreePoints == Len(_FreePoints)

NumberOfComponents == _Values.m

FreePointIndex(i) == _PointIndex[i]

FreePointId(r) == _FreePoints[r + 1]

GetValue(i, l) == _Values.d[i][l].num

Weight(i, j) == policy[i] + policy[j]

\* ---------------------------------------------------------------------------
\* SymmetricLinearSurfaceMapper::Solve

OffDiagonalEntriesSameCell(r, c, w_ij) == << <<r, c, -w_ij>>, <<r, c, -w_ij>> >>

OffDiagonalEntries(r, c, w_ij) == << <<r, c, -w_ij>>, <<c, r, -w_ij>> >>

RhsUpdateOwnValue(rhs, r, c, i, j, w_ij) ==
  IF r >= 0 /\ c >= 0 THEN rhs
  ELSE IF r >= 0
  THEN [rhs EXCEPT ![r] = [l \in 0..NumberOfComponents - 1 |-> @[l] + w_ij * GetValue(i, l)]]
  ELSE IF c >= 0
  THEN [rhs EXCEPT ![c] = [l \in 0..NumberOfComponents - 1 |-> @[l] + w_ij * GetValue(j, l)]]
  ELSE rhs

RhsUpdate(rhs, r, c, i, j, w_ij) ==
  IF r >= 0 /\ c >= 0 THEN rhs
  ELSE IF r >= 0
  THEN [rhs EXCEPT ![r] = [l \in 0..NumberOfComponents - 1 |-> @[l] + w_ij * GetValue(j, l)]]
  ELSE IF c >= 0
  THEN [rhs EXCEPT ![c] = [l \in 0..NumberOfComponents - 1 |-> @[l] + w_ij * GetValue(i, l)]]
  ELSE rhs

DiagonalUpdateElse(w_ii, r, c, w_ij) ==
  IF r >= 0 THEN [w_ii EXCEPT ![r] = @ + w_ij]
  ELSE IF c >= 0 THEN [w_ii EXCEPT ![c] = @ + w_ij]
  ELSE w_ii

DiagonalUpdate(w_ii, r, c, w_ij) ==
  LET w1 == IF r >= 0 THEN [w_ii EXCEPT ![r] = @ + w_ij] ELSE w_ii
  IN IF c >= 0 THEN [w1 EXCEPT ![c] = @ + w_ij] ELSE w1

\* one pass of the loop over the edges: st = [w, b, w_ii]
EdgeStep(st, e) ==
  LET i == e[1]
      j == e[2]
      r == FreePointIndex(i)
      c == FreePointIndex(j)
  IN IF r >= 0 \/ c >= 0
     THEN LET w_ij == Weight(i, j)
          IN [w    |-> IF r >= 0 /\ c >= 0
                       THEN st.w \o OffDiagonalEntries(r, c, w_ij) ELSE st.w,
              b    |-> RhsUpdate(st.b, r, c, i, j, w_ij),
              w_ii |-> DiagonalUpdate(st.w_ii, r, c, w_ij)]
     ELSE st

RECURSIVE EdgeLoop(_, _)
EdgeLoop(st, edges) ==
  IF edges = <<>> THEN st ELSE EdgeLoop(EdgeStep(st, Head(edges)), Tail(edges))

DiagonalEntriesOmitted(w_ii, n) == <<>>

DiagonalEntries(w_ii, n) == [k \in 1..n |-> <<k - 1, k - 1, w_ii[k - 1]>>]

\* Eigen::SparseMatrix::setFromTriplets: entries of the same cell are summed
RECURSIVE SumTriplets(_, _, _)
SumTriplets(w, r, c) ==
  IF w = <<>> THEN 0
  ELSE (IF Head(w)[1] = r /\ Head(w)[2] = c THEN Head(w)[3] ELSE 0)
       + SumTriplets(Tail(w), r, c)

SetFromTriplets(w, n) ==
  [r \in 0..n - 1 |-> [c \in 0..n - 1 |-> SumTriplets(w, r, c)]]

Assemble ==
  LET n  == NumberOfFreePoints
      m  == NumberOfComponents
      st == EdgeLoop([w    |-> <<>>,
                      b    |-> [r \in 0..n - 1 |-> [l \in 0..m - 1 |-> 0]],
                      w_ii |-> [r \in 0..n - 1 |-> 0]],
                     EdgeSeq(EdgeTable(_Surface)))
  IN [A |-> SetFromTriplets(st.w \o DiagonalEntries(st.w_ii, n), n), b |-> st.b]

\* Eigen::ConjugateGradient::solveWithGuess: the result depends on the system,
\* the guess and the settings that were set, and on nothing else
SolveWithGuess(sysA, sysb, x0) ==
  LET sys == [A |-> sysA, b |-> sysb, x0 |-> x0,
              maxIterations |-> IF _NumberOfIterations > 0 THEN _NumberOfIterations ELSE 0,
              tolerance     |-> IF _Tolerance > 0 THEN _Tolerance ELSE 0]
  IN [r \in DOMAIN x0 |-> [l \in DOMAIN x0[r] |-> [num |-> 0, sol |-> <<sys, r, l>>]]]

WriteBackIdIsIndex(r) == r

WriteBackId(r) == FreePointId(r)

WriteBack(x) ==
  LET n == NumberOfFreePoints
      m == NumberOfComponents
      target == {WriteBackId(r) : r \in 0..n - 1}
      row(i) == CHOOSE r \in 0..n - 1 :
                   /\ WriteBackId(r) = i
                   /\ \A q \in 0..n - 1 : WriteBackId(q) = i => q <= r
  IN [_Values EXCEPT !.d = [i \in DOMAIN @ |->
                              IF i \in target THEN x[row(i)] ELSE @[i]]]

Solve ==
  /\ pc = "initialized"
  /\ mapperType = "SymmetricLinearSurfaceMapper"
  /\ LET n   == NumberOfFreePoints
         m   == NumberOfComponents
         sys == Assemble
         x0  == [r \in 0..n - 1 |-> [l \in 0..m - 1 |-> _Values.d[FreePointId(r)][l]]]
         x   == SolveWithGuess(sys.A, sys.b, x0)
     IN /\ A' = sys.A
        /\ b' = sys.b
        /\ _Values' = WriteBack(x)
  /\ pc' = "solved"
  /\ UNCHANGED <<_Mesh, _Input, _Mask, _Surface, _Fixed, _FixedPoints, _FreePoints,
                 _PointIndex, _Output, _NumberOfIterations, _Tolerance, mapperType,
                 policy, diag, completed, firstResult>>

\* Solve of a mapper class that produces its own output representation
SolveOwnOutput ==
  /\ pc = "initialized"
  /\ mapperType = "OwnOutputSurfaceMapper"
  /\ _Output' = [null |-> FALSE, kind |-> "OwnOutputMap", domain |-> _Surface,
                 values |-> _Values]
  /\ pc' = "solved"
  /\ UNCHANGED <<_Mesh, _Input, _Mask, _Surface, _Values, _Fixed, _FixedPoints,
                 _FreePoints, _PointIndex, _NumberOfIterations, _Tolerance, mapperType,
                 policy, A, b, diag, completed, firstResult>>

Abort(msg) ==
  /\ pc' = "aborted"
  /\ diag' = msg

Initialize ==
  /\ pc \in {"idle", "done"}
  /\ completed < MaxRuns
  /\ _Output' = NullOutput
  /\ LET err == InputError(_Mesh, _Input, _Fixed) IN
     IF err # ""
     THEN /\ Abort(err)
          /\ UNCHANGED <<_Surface, _Values, _Fixed, _FixedPoints, _FreePoints, _PointIndex>>
     ELSE IF _Input.null
     THEN /\ Abort("Missing boundary conditions")
          /\ _Surface' = WorkingCopy(_Mesh)
          /\ UNCHANGED <<_Values, _Fixed, _FixedPoints, _FreePoints, _PointIndex>>
     ELSE LET surface == [WorkingCopy(_Mesh) EXCEPT !.scalars = _Mask]
              fixed   == InitializeMask(surface)
          IN /\ _Surface' = surface
             /\ _Values' = InitializeValues(_Input)
             /\ _Fixed' = fixed
             /\ \E oob \in [{p \in 0..surface.npts - 1 : p >= fixed.n} -> BOOLEAN] :
                  \/ LET part == Partition(surface.npts, fixed, oob)
                     IN /\ _FixedPoints' = part.fixed
                        /\ _FreePoints' = part.free
                        /\ _PointIndex' = part.index
                        /\ pc' = "initialized"
                        /\ diag' = ""
                  \/ /\ fixed.n < surface.npts
                     /\ pc' = "crashed"
                     /\ diag' = ""
                     /\ UNCHANGED <<_FixedPoints, _FreePoints, _PointIndex>>
  /\ UNCHANGED <<_Mesh, _Input, _Mask, _NumberOfIterations, _Tolerance, mapperType,
                 policy, A, b, completed, firstResult>>

DefaultMap(surface, values) ==
  [null |-> FALSE, kind |-> "PiecewiseLinearMap", domain |-> surface, values |-> values]

FinalizeOutputAlways(output, surface, values) == DefaultMap(surface, values)

FinalizeOutput(output, surface, values) ==
  IF output.null THEN DefaultMap(surface, values) ELSE output

Finalize ==
  /\ pc = "solved"
  /\ _Output' = FinalizeOutput(_Output, _Surface, _Values)
  /\ pc' = "done"
  /\ completed' = completed + 1
  /\ firstResult' = IF completed = 0
                    THEN [null |-> FALSE, fixed |-> _FixedPoints, free |-> _FreePoints,
                          index |-> _PointIndex, output |-> _Output']
                    ELSE firstResult
  /\ UNCHANGED <<_Mesh, _Input, _Mask, _Surface, _Values, _Fixed, _FixedPoints,
                 _FreePoints, _PointIndex, _NumberOfIterations, _Tolerance, mapperType,
                 policy, A, b, diag>>

\* ---------------------------------------------------------------------------
\* Attribute setters (the caller configures the mapper between runs)

Modified ==
  /\ pc \in {"idle", "done"}
  /\ completed' = 0
  /\ firstResult' = NoResult
  /\ pc' = "idle"
  /\ UNCHANGED <<_Surface, _Values, _Fixed, _FixedPoints, _FreePoints, _PointIndex,
                 _Output, _NumberOfIterations, _Tolerance, mapperType, policy, A, b, diag>>

\* ---------------------------------------------------------------------------
\* Meshes and arrays the runs are checked on

Strip(n) ==
  [null |-> FALSE, npts |-> n, polys |-> {{k, k + 1, k + 2} : k \in 0..n - 3}]

ClosedFan(n) ==
  [null |-> FALSE, npts |-> n,
   polys |-> {{0, k, k + 1} : k \in 1..n - 2} \cup (IF n > 3 THEN {{0, n - 1, 1}} ELSE {})]

WithIsolatedPoint(n) == [Strip(n - 1) EXCEPT !.npts = n]

NoPolys(n) == [null |-> FALSE, npts |-> n, polys |-> {}]

Ramp(n, m) ==
  [null |-> FALSE, n |-> n, m |-> m,
   d |-> [i \in 0..n - 1 |-> [l \in 0..m - 1 |-> Cell(3 * i + l + 1)]]]

Flags(n, f) ==
  [null |-> FALSE, n |-> n, m |-> 1,
   d |-> [i \in 0..n - 1 |-> [l \in 0..0 |-> Cell(f[i])]]]

AllMasks(n) == {Flags(n, f) : f \in [0..n - 1 -> {0, 1}]}

OnlyFirst(n) == Flags(n, [i \in 0..n - 1 |-> IF i = 0 THEN 1 ELSE 0])

AllButFirst(n) == Flags(n, [i \in 0..n - 1 |-> IF i = 0 THEN 0 ELSE 1])

Sizes == {MaxPoints - 1, MaxPoints}

SomeMeshes == {NullMesh, NoPolys(MaxPoints), Strip(MaxPoints - 1), ClosedFan(MaxPoints)}

SomeInputs == {NullArray} \cup {Ramp(n, 1) : n \in Sizes}

SomeMasks == {NullArray} \cup {OnlyFirst(n) : n \in Sizes} \cup {AllButFirst(n) : n \in Sizes}

SurfaceMeshes == UNION {{Strip(n), ClosedFan(n), WithIsolatedPoint(n)} : n \in 3..MaxPoints}

SetMesh ==
  /\ \E mesh \in SomeMeshes : mesh # _Mesh /\ _Mesh' = mesh
  /\ Modified
  /\ UNCHANGED <<_Input, _Mask>>

SetInput ==
  /\ \E input \in SomeInputs : input # _Input /\ _Input' = input
  /\ Modified
  /\ UNCHANGED <<_Mesh, _Mask>>

SetMask ==
  /\ \E mask \in SomeMasks : mask # _Mask /\ _Mask' = mask
  /\ Modified
  /\ UNCHANGED <<_Mesh, _Input>>

\* ---------------------------------------------------------------------------
\* Specifications

Constructed ==
  /\ _Surface = NullSurface
  /\ _Values = NullArray
  /\ _Fixed = NullArray
  /\ _FixedPoints = <<>>
  /\ _FreePoints = <<>>
  /\ _PointIndex = <<>>
  /\ _Output = NullOutput
  /\ A = <<>>
  /\ b = <<>>
  /\ pc = "idle"
  /\ diag = ""
  /\ completed = 0
  /\ firstResult = NoResult

\* a newly constructed mapper of either class; the caller sets its inputs
Init ==
  /\ Constructed
  /\ _Mesh = NullMesh
  /\ _Input = NullArray
  /\ _Mask = NullArray
  /\ _NumberOfIterations \in 0..MaxIterations
  /\ _Tolerance \in {0, 1}
  /\ mapperType \in {"SymmetricLinearSurfaceMapper", "OwnOutputSurfaceMapper"}
  /\ policy = [p \in 0..MaxPoints - 1 |-> 1]

Next == SetMesh \/ SetInput \/ SetMask \/ Initialize \/ Solve \/ SolveOwnOutput \/ Finalize

Spec == Init /\ [][Next]_vars

\* a symmetric linear mapper whose inputs are set: any surface mesh of the
\* catalogue, any mask of the mesh's size or none, any weight coefficients;
\* and, under uniform weights, masks one tuple short or long
InitSystem ==
  /\ Constructed
  /\ _Mesh \in SurfaceMeshes
  /\ \E m \in 1..MaxComponents : _Input = Ramp(_Mesh.npts, m)
  /\ \/ /\ _Mask \in {NullArray} \cup AllMasks(_Mesh.npts)
        /\ policy \in [0.._Mesh.npts - 1 -> WeightCoefficients]
     \/ /\ _Mask \in AllMasks(_Mesh.npts - 1) \cup AllMasks(_Mesh.npts + 1)
        /\ policy = [p \in 0.._Mesh.npts - 1 |-> 1]
  /\ _NumberOfIterations = 0
  /\ _Tolerance = 0
  /\ mapperType = "SymmetricLinearSurfaceMapper"

NextSystem == Initialize \/ Solve \/ Finalize

SpecSystem == InitSystem /\ [][NextSystem]_vars

\* ---------------------------------------------------------------------------
\* Properties

Range(list) == {list[k] : k \in 1..Len(list)}

RECURSIVE SumOver(_, _)
SumOver(S, f) ==
  IF S = {} THEN 0
  ELSE LET x == CHOOSE y \in S : TRUE IN f[x] + SumOver(S \ {x}, f)

Edges == EdgeTable(_Surface)

Incident(p) == {e \in Edges : p \in {e[1], e[2]}}

Other(e, p) == IF e[1] = p THEN e[2] ELSE e[1]

EdgeWeight == [e \in Edges |-> Weight(e[1], e[2])]

FreeRows == 0..Len(_FreePoints) - 1

Partitioned == pc \in {"initialized", "solved", "done"}

\* C1: after Initialize every point id is in exactly one of the fixed-id and
\* free-id lists (the fixed ones being those the mask flags), the list lengths
\* sum to the point count, and the signed index decodes back to the point:
\* -(k+1) with FixedPoints[k] = p for a fixed p, r >= 0 with FreePoints[r] = p
\* for a free p.
C1_PartitionBijection ==
  Partitioned =>
    /\ Len(_FixedPoints) + Len(_FreePoints) = _Surface.npts
    /\ Range(_FixedPoints) \cap Range(_FreePoints) = {}
    /\ \A p \in 0.._Surface.npts - 1 :
         /\ (p \in Range(_FixedPoints)) # (p \in Range(_FreePoints))
         /\ p < _Fixed.n => ((p \in Range(_FixedPoints)) <=> (_Fixed.d[p][0].num # 0))
         /\ p \in Range(_FixedPoints) =>
              LET k == -_PointIndex[p] - 1
              IN k \in 0..Len(_FixedPoints) - 1 /\ _FixedPoints[k + 1] = p
         /\ p \in Range(_FreePoints) =>
              LET r == _PointIndex[p]
              IN r \in 0..Len(_FreePoints) - 1 /\ _FreePoints[r + 1] = p

C1_Witness ==
  /\ pc = "initialized"
  /\ ~_Mask.null
  /\ Len(_FixedPoints) >= 2
  /\ Len(_FreePoints) >= 2

\* C2: the assembled matrix is symmetric: A[r,c] = A[c,r] for all free-point
\* indices r, c.
C2_MatrixSymmetric ==
  pc = "solved" => \A r \in FreeRows : \A c \in FreeRows : A[r][c] = A[c][r]

C2_Witness ==
  /\ pc = "solved"
  /\ \E r \in FreeRows : \E c \in FreeRows : r # c /\ A[r][c] # 0

\* C3: the diagonal entry of a free point is the sum of the weights of all
\* edges incident to it, to free and fixed neighbours alike, each edge once.
C3_DiagonalIsIncidentWeightSum ==
  pc = "solved" =>
    \A r \in FreeRows : A[r][r] = SumOver(Incident(FreePointId(r)), EdgeWeight)

C3_Witness ==
  /\ pc = "solved"
  /\ \E r \in FreeRows :
       /\ A[r][r] # 0
       /\ \E e \in Incident(FreePointId(r)) : FreePointIndex(Other(e, FreePointId(r))) >= 0
       /\ \E e \in Incident(FreePointId(r)) : FreePointIndex(Other(e, FreePointId(r))) < 0

BadInput ==
  \/ _Mesh.null
  \/ GetNumberOfPolys(_Mesh) = 0
  \/ _Input.null
  \/ _Input.n # _Mesh.npts

InitializeStep == pc \in {"idle", "done"} /\ pc' # "idle"

\* C4: an Initialize entered with a missing mesh, a mesh without polygons, a
\* missing input array or an input array of the wrong length ends the run with
\* a diagnostic, Solve is not entered, and no output map is left.
C4_BadInputAborts ==
  [][(InitializeStep /\ BadInput) => (pc' = "aborted" /\ diag' # "" /\ _Output'.null)]_vars

C4_Witness ==
  /\ pc = "aborted"
  /\ BadInput
  /\ ~_Values.null

\* C5: an Initialize entered with an input mask whose length differs from the
\* point count of the mesh never gets to the partition and to Solve.
C5_MaskMismatchAborts ==
  pc \in {"initialized", "solved"} => (_Mask.null \/ _Mask.n = _Mesh.npts)

\* C6: a Run that follows a completed Run with nothing modified in between
\* ends, and ends with the partition and the output of the first Run.
C6_SecondRunSameResult ==
  (completed >= 1 /\ pc \in {"done", "aborted", "crashed"}) =>
    /\ pc = "done"
    /\ firstResult.fixed = _FixedPoints
    /\ firstResult.free = _FreePoints
    /\ firstResult.index = _PointIndex
    /\ firstResult.output = _Output

\* C7: Finalize builds the piecewise linear map of the working mesh and the
\* current values when no output is set and leaves a set output alone; after
\* Finalize an output exists.
C7_FinalizeKeepsOrBuildsOutput ==
  [][pc = "solved" =>
       (/\ _Output' = IF _Output.null
                      THEN [null |-> FALSE, kind |-> "PiecewiseLinearMap",
                            domain |-> _Surface, values |-> _Values]
                      ELSE _Output
        /\ ~_Output'.null
        /\ pc' = "done")]_vars

C7_Witness ==
  /\ pc = "done"
  /\ _Output.kind = "OwnOutputMap"

FixedNeighbourTerms(p, l) ==
  [e \in {x \in Incident(p) : FreePointIndex(Other(x, p)) < 0} |->
     EdgeWeight[e] * _Values.d[Other(e, p)][l].num]

\* C8: the right-hand side of a free point is, per component, the sum over its
\* edges to fixed points of weight times the fixed value; an edge between two
\* free points enters the matrix with its negated weight (and not b), and two
\* free points that share no edge have a zero entry.
C8_RightHandSide ==
  pc = "solved" =>
    /\ \A r \in FreeRows : \A l \in 0.._Values.m - 1 :
         b[r][l] = SumOver(DOMAIN FixedNeighbourTerms(FreePointId(r), l),
                           FixedNeighbourTerms(FreePointId(r), l))
    /\ \A r \in FreeRows : \A c \in FreeRows :
         r # c =>
           LET i == FreePointId(r)
               j == FreePointId(c)
               e == IF i < j THEN <<i, j>> ELSE <<j, i>>
           IN A[r][c] = IF e \in Edges THEN -EdgeWeight[e] ELSE 0

C8_Witness ==
  /\ pc = "solved"
  /\ _Values.m >= 2
  /\ \E r \in FreeRows : b[r][1] # 0
  /\ \E e \in Edges : FreePointIndex(e[1]) >= 0 /\ FreePointIndex(e[2]) >= 0
  /\ \E e \in Edges : FreePointIndex(e[1]) < 0 /\ FreePointIndex(e[2]) < 0

RowNonZero(r) == \E c \in FreeRows : A[r][c] # 0

\* C9 as claimed: whatever the weights, the row of a free point with an
\* incident edge is not all zero.
C9_NoZeroRowAnyWeight ==
  pc = "solved" =>
    \A r \in FreeRows : Incident(FreePointId(r)) # {} => RowNonZero(r)

\* C9 amended: when the weights of the edges incident to a free point are all
\* strictly positive and there is at least one, its row is not all zero.
C9_NoZeroRowPositiveWeights ==
  pc = "solved" =>
    \A r \in FreeRows :
       (/\ Incident(FreePointId(r)) # {}
        /\ \A e \in Incident(FreePointId(r)) : EdgeWeight[e] > 0) => RowNonZero(r)

C9_Witness ==
  /\ pc = "solved"
  /\ \E r \in FreeRows :
       /\ Incident(FreePointId(r)) # {}
       /\ \A e \in Incident(FreePointId(r)) :
            EdgeWeight[e] > 0 /\ FreePointIndex(Other(e, FreePointId(r))) < 0
       /\ RowNonZero(r)

\* C10: Solve and Finalize leave every component of every fixed point, the
\* fixed mask, both id lists and the point index as Initialize produced them.
C10_SolveWritesFreePointsOnly ==
  [][(pc = "initialized" \/ pc = "solved") =>
       (/\ \A p \in Range(_FixedPoints) : _Values'.d[p] = _Values.d[p]
        /\ UNCHANGED <<_Fixed, _FixedPoints, _FreePoints, _PointIndex>>)]_vars

C10_Witness ==
  /\ pc = "solved"
  /\ _FixedPoints # <<>>
  /\ \E r \in FreeRows : FreePointId(r) # r /\ _Values.d[FreePointId(r)][0].sol # <<>>

====
